---- MODULE Spec2Model ----
(***************************************************************************)
(* CredSentinal: scoring, alert derivation and refresh scheduling.         *)
(*                                                                         *)
(* Numbers.  Python floats are modelled by exact fixed-point integers.     *)
(* Ratios of a FinancialData row (debt_to_equity, current_ratio,           *)
(* return_on_equity, revenue_growth, price_volatility, beta) and the       *)
(* sentiment_score / risk_score of a NewsEvent row are in hundredths       *)
(* (0.5 is 50); market_cap is in millions, as the column is.  A score of   *)
(* one point is U units, U chosen so that the average sentiment of the     *)
(* longest news list and the weighted sum with weights in tenths are exact.*)
(* Floating-point rounding is therefore outside this model.                *)
(*                                                                         *)
(* Coroutines.  Every job is an asyncio coroutine; a step of the model     *)
(* runs a coroutine from one await to the next.  The coroutines awaited    *)
(* never suspend, so the steps of a coroutine that has begun are not       *)
(* interleaved with anything else that runs on the event loop (LoopBusy).  *)
(***************************************************************************)
EXTENDS Integers, Sequences, FiniteSets, Bags, TLC

VARIABLES
    now,             \* the wall clock (datetime.now()), in days
    settings,        \* core/config.py Settings: weights (tenths) and threshold (hundredths)
    is_active,       \* companies table: ticker -> Company.is_active
    financial_data,  \* financial_data table: ticker -> latest row (Some) or Null
    news_events,     \* news_events table: ticker -> rows, oldest first
    credit_scores,   \* credit_scores table: ticker -> rows, oldest first
    alerts,          \* alerts table: rows in insertion order
    jobs,            \* APScheduler job store: ids of the jobs waiting to fire
    tasks,           \* coroutines in flight on the event loop (a bag of records)
    call             \* the last direct service call: [fn, args, ret, raised]

vars == <<now, settings, is_active, financial_data, news_events, credit_scores,
          alerts, jobs, tasks, call>>

\* A nullable column or an Optional value: Null is Python's None, Some(x) a value.
Null == <<>>
Some(x) == <<x>>
Val(o) == o[1]

-----------------------------------------------------------------------------
(* Bounds of the model *)

MaxNews == 1      \* news rows kept per company
MaxNewsArg == 3   \* length of a news list passed to _calculate_news_score
MaxScores == 2    \* credit_scores rows per company
MaxTasks == 2     \* coroutines in flight at once
MaxAlerts == 1    \* alerts rows
MaxTime == 2      \* days the clock runs

\* the tickers of the model, in the order of their primary keys
Companies == <<"AAPL", "MSFT">>
\* the rows of the companies table
Tickers == DOMAIN is_active

RECURSIVE Fact(_)
Fact(n) == IF n <= 1 THEN 1 ELSE n * Fact(n - 1)

L == Fact(IF MaxNews > MaxNewsArg THEN MaxNews ELSE MaxNewsArg)
U == 1000 * L                 \* units per score point
Pts(h) == h * (U \div 100)    \* hundredths of a point -> units

Abs(x) == IF x < 0 THEN -x ELSE x
Min(a, b) == IF a < b THEN a ELSE b
Max(a, b) == IF a > b THEN a ELSE b

RECURSIVE SumSeq(_)
SumSeq(s) == IF s = <<>> THEN 0 ELSE Head(s) + SumSeq(Tail(s))

-----------------------------------------------------------------------------
(* ScoringService: the three sub-scores *)

\* max(0, min(100, score)), in points
Clamp(score) == Max(0, Min(100, score))

\* a ladder that takes a missing debt-to-equity ratio for the worst one
DebtToEquityAdjMissingWorst(v) ==
    IF v = Null THEN -20
    ELSE IF Val(v) <= 50 THEN 20
    ELSE IF Val(v) <= 100 THEN 10
    ELSE IF Val(v) <= 200 THEN -10
    ELSE -20

DebtToEquityAdj(v) ==
    IF v = Null THEN 0
    ELSE IF Val(v) <= 50 THEN 20
    ELSE IF Val(v) <= 100 THEN 10
    ELSE IF Val(v) <= 200 THEN -10
    ELSE -20

CurrentRatioAdj(v) ==
    IF v = Null THEN 0
    ELSE IF Val(v) >= 200 THEN 15
    ELSE IF Val(v) >= 150 THEN 10
    ELSE IF Val(v) >= 100 THEN 5
    ELSE -15

ReturnOnEquityAdj(v) ==
    IF v = Null THEN 0
    ELSE IF Val(v) >= 15 THEN 15
    ELSE IF Val(v) >= 10 THEN 10
    ELSE IF Val(v) >= 5 THEN 5
    ELSE -10

RevenueGrowthAdj(v) ==
    IF v = Null THEN 0
    ELSE IF Val(v) >= 10 THEN 10
    ELSE IF Val(v) >= 5 THEN 5
    ELSE IF Val(v) < 0 THEN -10
    ELSE 0

\* no clamping at all
NoClamp(score) == score

\* return max(0, min(100, score)) of _calculate_financial_score
FinancialClamp(score) == Clamp(score)

\* _calculate_financial_score, in units
CalculateFinancialScore(fd) ==
    U * FinancialClamp(50 + DebtToEquityAdj(fd.debt_to_equity)
                          + CurrentRatioAdj(fd.current_ratio)
                          + ReturnOnEquityAdj(fd.return_on_equity)
                          + RevenueGrowthAdj(fd.revenue_growth))

PriceVolatilityAdj(v) ==
    IF v = Null THEN 0
    ELSE IF Val(v) <= 20 THEN 20
    ELSE IF Val(v) <= 30 THEN 10
    ELSE IF Val(v) <= 40 THEN 5
    ELSE -10

BetaAdj(v) ==
    IF v = Null THEN 0
    ELSE IF Val(v) <= 80 THEN 15
    ELSE IF Val(v) <= 120 THEN 10
    ELSE IF Val(v) <= 150 THEN 5
    ELSE -10

MarketCapAdj(v) ==
    IF v = Null THEN 0
    ELSE IF Val(v) >= 10000 THEN 15
    ELSE IF Val(v) >= 1000 THEN 10
    ELSE IF Val(v) >= 100 THEN 5
    ELSE -5

\* _calculate_market_score, in units
CalculateMarketScore(fd) ==
    U * Clamp(50 + PriceVolatilityAdj(fd.price_volatility)
                 + BetaAdj(fd.beta)
                 + MarketCapAdj(fd.market_cap))

HighRiskEvents == {"default", "legal", "restructuring"}

\* event_type in high_risk_events (None is in no list)
IsHighRiskType(ty) == ty # Null /\ Val(ty) \in HighRiskEvents

\* the loop of _calculate_news_score: 10 per high-risk event type, else 5 per
\* row with risk_score > 0.7
RECURSIVE RiskPenalty(_)
RiskPenalty(evs) ==
    IF evs = <<>> THEN 0
    ELSE (IF IsHighRiskType(Head(evs).event_type) THEN 10
          ELSE IF Val(Head(evs).risk_score) > 70 THEN 5
          ELSE 0) + RiskPenalty(Tail(evs))

\* a row on which the arithmetic of _calculate_news_score raises TypeError
NewsRowRaises(evs) ==
    \E i \in 1..Len(evs) :
        \/ evs[i].sentiment_score = Null
        \/ ~IsHighRiskType(evs[i].event_type) /\ evs[i].risk_score = Null

NewsClamp(score) == Max(0, Min(100 * U, score))

\* _calculate_news_score, in units
CalculateNewsScore(evs) ==
    IF evs = <<>> THEN 50 * U
    ELSE IF NewsRowRaises(evs) THEN 50 * U
    ELSE NewsClamp(50 * U
                   + 300 * SumSeq([i \in 1..Len(evs) |-> Val(evs[i].sentiment_score)])
                         * (L \div Len(evs))
                   - U * Min(RiskPenalty(evs), 20))

-----------------------------------------------------------------------------
(* ScoringService: one score computation *)

\* the weighted sum without its news term
OverallScoreNoNews(w, financial_score, market_score, news_score) ==
    (w.financial_weight * financial_score + w.market_weight * market_score) \div 10

\* overall_score = financial_weight * financial_score + market_weight *
\* market_score + news_weight * news_score; the weights are in tenths
OverallScore(w, financial_score, market_score, news_score) ==
    (w.financial_weight * financial_score
     + w.market_weight * market_score
     + w.news_weight * news_score) \div 10

\* the row _get_previous_score selects: ORDER BY calculated_at DESC OFFSET 1
PreviousRowIndex(rows) == Len(rows) - 1

\* _get_previous_score: Null when the company is unknown or inactive, or when
\* the query returns no row
GetPreviousScore(t) ==
    IF ~is_active[t] THEN Null
    ELSE IF PreviousRowIndex(credit_scores[t]) < 1 THEN Null
    ELSE Some(credit_scores[t][PreviousRowIndex(credit_scores[t])].overall_score)

\* a missing previous score read as 0
ScoreChangeFromZero(overall_score, previous_score) ==
    overall_score - (IF previous_score = Null THEN 0 ELSE Val(previous_score))

\* overall_score - previous_score if previous_score else 0: a previous score
\* of None and one of 0.0 are both falsy
ScoreChange(overall_score, previous_score) ==
    IF previous_score # Null /\ Val(previous_score) # 0
    THEN overall_score - Val(previous_score)
    ELSE 0

\* a trend without the dead-band's endpoints
DetermineTrendDirectionInclusive(score_change) ==
    IF score_change >= 5 * U THEN "increasing"
    ELSE IF score_change <= -(5 * U) THEN "decreasing"
    ELSE "stable"

\* _determine_trend_direction
DetermineTrendDirection(score_change) ==
    IF score_change > 5 * U THEN "increasing"
    ELSE IF score_change < -(5 * U) THEN "decreasing"
    ELSE "stable"

\* the latest row whether or not the company is active
GetLatestFinancialDataAnyCompany(t) == financial_data[t]

\* _get_latest_financial_data
GetLatestFinancialData(t) ==
    IF ~is_active[t] THEN Null ELSE financial_data[t]

\* _get_latest_news_data
GetLatestNewsData(t) ==
    IF ~is_active[t] THEN <<>>
    ELSE SelectSeq(news_events[t], LAMBDA ev : ev.published_at >= now - 7)

\* the CreditScore row _compute_score_background builds for ticker t
NewCreditScore(t) ==
    LET fd == Val(GetLatestFinancialData(t))
        financial_score == CalculateFinancialScore(fd)
        market_score == CalculateMarketScore(fd)
        news_score == CalculateNewsScore(GetLatestNewsData(t))
        overall_score == OverallScore(settings, financial_score, market_score,
                                      news_score)
        score_change == ScoreChange(overall_score, GetPreviousScore(t))
    IN  [overall_score |-> overall_score,
         financial_score |-> financial_score,
         market_score |-> market_score,
         news_score |-> news_score,
         score_change |-> score_change,
         trend_direction |-> DetermineTrendDirection(score_change),
         calculated_at |-> now]

\* a computation that updates the latest row in place
ComputeScoreBackgroundInPlace(t) ==
    IF GetLatestFinancialData(t) = Null
    THEN UNCHANGED credit_scores
    ELSE /\ Len(credit_scores[t]) < MaxScores
         /\ credit_scores' =
                [credit_scores EXCEPT
                    ![t] = IF @ = <<>> THEN <<NewCreditScore(t)>>
                           ELSE [@ EXCEPT ![Len(@)] = NewCreditScore(t)]]

\* _compute_score_background as a whole: it has no await and catches every
\* exception.  Without financial data it returns before writing anything.
ComputeScoreBackground(t) ==
    IF GetLatestFinancialData(t) = Null
    THEN UNCHANGED credit_scores
    ELSE /\ Len(credit_scores[t]) < MaxScores
         /\ credit_scores' =
                [credit_scores EXCEPT ![t] = Append(@, NewCreditScore(t))]

\* `x and x > bound`: a column that is None or 0 is falsy
Truthy(v) == v # Null /\ Val(v) # 0

\* the factor and the indicator a test of _generate_explanation appends
Factor(cond, key_factor, risk_indicator) ==
    IF cond THEN [key_factors |-> <<key_factor>>,
                  risk_indicators |-> <<risk_indicator>>]
    ELSE [key_factors |-> <<>>, risk_indicators |-> <<>>]

\* the financial, market and news tests of _generate_explanation, in the
\* order of the code; a key factor is modelled by its text without the
\* formatted number
ExplanationFactors(fd, evs) ==
    << Factor(Truthy(fd.debt_to_equity) /\ Val(fd.debt_to_equity) > 100,
              "High debt-to-equity ratio", "high_leverage"),
       Factor(Truthy(fd.current_ratio) /\ Val(fd.current_ratio) < 150,
              "Low current ratio", "liquidity_concerns"),
       Factor(Truthy(fd.return_on_equity) /\ Val(fd.return_on_equity) < 5,
              "Low return on equity", "poor_profitability"),
       Factor(Truthy(fd.price_volatility) /\ Val(fd.price_volatility) > 40,
              "High price volatility", "market_volatility"),
       Factor(\E i \in DOMAIN evs : Val(evs[i].sentiment_score) < -30,
              "Negative sentiment in recent news articles",
              "negative_news_sentiment"),
       Factor(\E i \in DOMAIN evs : IsHighRiskType(evs[i].event_type),
              "High-risk events detected", "high_risk_events") >>

RECURSIVE Concat(_)
Concat(seqs) == IF seqs = <<>> THEN <<>> ELSE Head(seqs) \o Concat(Tail(seqs))

\* key_factors[:2]
FirstTwo(seq) == SubSeq(seq, 1, Min(2, Len(seq)))

\* the three summary sentences: "... improved by ...", "... decreased by ...
\* due to <key_factors[:2]>.", "... remained stable ..."
Summary(score_change, key_factors) ==
    IF score_change > 0 THEN [template |-> "improved", factors |-> <<>>]
    ELSE IF score_change < 0
    THEN [template |-> "decreased", factors |-> FirstTwo(key_factors)]
    ELSE [template |-> "stable", factors |-> <<>>]

\* event.sentiment_score < -0.3 raises TypeError on a row without sentiment
ExplanationRaises(evs) == \E i \in DOMAIN evs : evs[i].sentiment_score = Null

\* _generate_explanation: the except branch returns the generic text
GenerateExplanation(fd, evs, score_change) ==
    IF ExplanationRaises(evs)
    THEN [explanation_summary |-> [template |-> "analysis", factors |-> <<>>],
          key_factors |-> <<>>, risk_indicators |-> <<>>]
    ELSE LET fs == ExplanationFactors(fd, evs)
             key_factors == Concat([i \in DOMAIN fs |-> fs[i].key_factors])
         IN  [explanation_summary |-> Summary(score_change, key_factors),
              key_factors |-> key_factors,
              risk_indicators |->
                  Concat([i \in DOMAIN fs |-> fs[i].risk_indicators])]

\* ORDER BY calculated_at DESC ... first(): the position of the row with the
\* greatest calculated_at.  The clock of the code is finer than the days of
\* the model: of two rows of one day the later inserted has the greater
\* calculated_at.
LatestRowIndex(rows) ==
    CHOOSE i \in DOMAIN rows :
        \A j \in DOMAIN rows :
            \/ rows[j].calculated_at < rows[i].calculated_at
            \/ rows[j].calculated_at = rows[i].calculated_at /\ j <= i

\* get_latest_credit_score: Null for an unknown or inactive company and for
\* a company without scores
GetLatestCreditScore(t) ==
    IF ~is_active[t] THEN Null
    ELSE IF credit_scores[t] = <<>> THEN Null
    ELSE Some(credit_scores[t][LatestRowIndex(credit_scores[t])])

-----------------------------------------------------------------------------
(* What the data providers can answer *)

Row(de, cr, roe, rg, pv, beta, cap) ==
    [debt_to_equity |-> de, current_ratio |-> cr, return_on_equity |-> roe,
     revenue_growth |-> rg, price_volatility |-> pv, beta |-> beta,
     market_cap |-> cap]

\* the FinancialData rows a fetch can store
ProviderRows(t) ==
    IF t = Companies[1]
    THEN { Row(Some(40), Some(250), Some(18), Some(12), Some(15), Some(70), Some(20000)),
           Row(Some(250), Some(80), Some(2), Some(-5), Some(50), Some(180), Some(50)),
           Row(Null, Some(160), Null, Some(0), Null, Null, Some(0)) }
    ELSE { Row(Some(250), Some(80), Some(2), Some(-5), Some(50), Some(180), Some(50)) }

Event(sentiment, type, risk) ==
    [sentiment_score |-> sentiment, event_type |-> type, risk_score |-> risk]

\* the NewsEvent rows a fetch can store
ProviderNews(t) ==
    IF t = Companies[1] THEN { Event(Some(-80), Some("default"), Some(80)) }
    ELSE {}

-----------------------------------------------------------------------------
(* FinancialService / NewsService: the fetches *)

\* fetch_financial_data returning normally: the company is active, the
\* provider answered, and the new row has been committed
FetchFinancialDataOk(t, row) ==
    /\ is_active[t]
    /\ financial_data' = [financial_data EXCEPT ![t] = Some(row @@ [date |-> now])]

\* fetch_financial_data raising (company not found or inactive, provider
\* error): nothing is written
FetchFinancialDataRaises(t) ==
    UNCHANGED financial_data

\* fetch_news_data returning normally, having committed the rows it could
\* process (possibly none)
FetchNewsDataOk(t, rows) ==
    /\ is_active[t]
    /\ Len(news_events[t]) + Len(rows) <= MaxNews
    /\ news_events' =
           [news_events EXCEPT
               ![t] = @ \o [i \in DOMAIN rows |-> rows[i] @@ [published_at |-> now]]]

\* fetch_news_data raising before any row is saved
FetchNewsDataRaises(t) ==
    UNCHANGED news_events

NewsBatches(t) == {<<>>} \cup {<<e>> : e \in ProviderNews(t)}

-----------------------------------------------------------------------------
(* The scheduler: job store, executor and the coroutines in flight *)

DataRefreshId == <<"data_refresh">>
ScoreComputationId == <<"score_computation">>
RefreshId(t) == <<"refresh", t>>
BackgroundId == <<"background">>     \* a Starlette background task, not a job

\* the await a coroutine of this job or background task starts at
StartPc(id) ==
    IF id \in {ScoreComputationId, BackgroundId} THEN "compute_score"
    ELSE "fetch_financial"

\* A coroutine the executor or Starlette has created: the company it is at
\* (the head of todo), the await it is at, and whether it has begun to run.
Task(id, todo, pc) ==
    [job |-> id, todo |-> todo, pc |-> pc, run |-> pc # StartPc(id)]

AddTask(B, r) == B (+) SetToBag({r})
RemoveTask(B, r) == B (-) SetToBag({r})
ReplaceTask(B, r, q) == AddTask(RemoveTask(B, r), q)

RECURSIVE BagSum(_, _)
BagSum(B, S) ==
    IF S = {} THEN 0
    ELSE LET r == CHOOSE x \in S : TRUE
         IN  CopiesIn(r, B) + BagSum(B, S \ {r})

\* a loop on which coroutines interleave at every await
LoopNeverBusy == FALSE

\* Jobs, background tasks and request handlers are coroutines of the one
\* asyncio event loop (AsyncIOScheduler, async def endpoints), and none of
\* the coroutines they await suspends: fetch_financial_data, fetch_news_data,
\* _fetch_mock_news_data and _compute_score_background call yfinance,
\* requests and the session synchronously and await no future.  A coroutine
\* that has begun to run therefore keeps the loop until it returns.
LoopBusy == \E r \in BagToSet(tasks) : r.run

\* the loop is r's to run on
HasLoop(r) == r.run \/ ~LoopBusy

\* running instances of a job id, as the executor counts them
Instances(id) == BagSum(tasks, {r \in BagToSet(tasks) : r.job = id})

\* an executor that never refuses a job
NoInstanceLimit(id) == FALSE

\* BaseExecutor.submit_job refuses a job whose id already has max_instances
\* (default 1) running instances
MaxInstancesReached(id) == Instances(id) >= 1

\* db.query(Company).filter(Company.is_active == True).all()
ActiveCompanies ==
    SelectSeq(Companies, LAMBDA t : t \in Tickers /\ is_active[t])

\* a batch job that ends with the company it is at
NoNextCompany(r) == {}

\* the task a batch job continues as after finishing one company, or after
\* the except ... continue of its loop body
NextCompany(r) ==
    IF Len(r.todo) > 1
    THEN {[Task(r.job, Tail(r.todo), StartPc(r.job)) EXCEPT !.run = TRUE]}
    ELSE {}

\* a job that goes on to score the company after a fetch has raised
ExceptScores(r) == {Task(r.job, r.todo, "compute_score")}

\* refresh_company_data_job has one try around its three awaits: when a
\* fetch raises, the except branch logs and the job returns
ExceptReturns(r) == {}

Continue(r, S) ==
    tasks' = IF S = {} THEN RemoveTask(tasks, r)
             ELSE ReplaceTask(tasks, r, CHOOSE q \in S : TRUE)

-----------------------------------------------------------------------------
(* Triggers *)

\* add_company_to_scheduler: add_job(..., 'date', id="refresh_<ticker>",
\* replace_existing=True).  A waiting job of the same id is replaced.  The
\* function is a plain def with no caller in the repository and add_job is
\* thread-safe, so it is not tied to the loop.
AddCompanyToScheduler(t) ==
    /\ jobs' = jobs \cup {RefreshId(t)}
    /\ UNCHANGED <<now, settings, is_active, financial_data, news_events,
                   credit_scores, alerts, tasks, call>>

\* ScoringService.compute_credit_score: rejects an unknown or inactive
\* company, else queues _compute_score_background as a background task
ComputeCreditScore(t) ==
    /\ ~LoopBusy
    /\ is_active[t]
    /\ BagCardinality(tasks) < MaxTasks
    /\ tasks' = AddTask(tasks, Task(BackgroundId, <<t>>, "compute_score"))
    /\ UNCHANGED <<now, settings, is_active, financial_data, news_events,
                   credit_scores, alerts, jobs, call>>

\* The scheduler finds the one-shot job refresh_<ticker> due.  The job leaves
\* the store (a date trigger has no next fire time); it is started unless the
\* executor refuses it.
FireRefreshCompany(t) ==
    /\ ~LoopBusy
    /\ RefreshId(t) \in jobs
    /\ jobs' = jobs \ {RefreshId(t)}
    /\ IF MaxInstancesReached(RefreshId(t))
       THEN UNCHANGED tasks
       ELSE /\ BagCardinality(tasks) < MaxTasks
            /\ tasks' = AddTask(tasks, Task(RefreshId(t), <<t>>, "fetch_financial"))
    /\ UNCHANGED <<now, settings, is_active, financial_data, news_events,
                   credit_scores, alerts, call>>

\* The cron job data_refresh fires: refresh_all_data_job starts, reads the
\* active companies and returns at once when there are none.
FireDataRefresh ==
    /\ ~LoopBusy
    /\ DataRefreshId \in jobs
    /\ ~MaxInstancesReached(DataRefreshId)
    /\ ActiveCompanies # <<>>
    /\ BagCardinality(tasks) < MaxTasks
    /\ tasks' = AddTask(tasks, Task(DataRefreshId, ActiveCompanies, "fetch_financial"))
    /\ UNCHANGED <<now, settings, is_active, financial_data, news_events,
                   credit_scores, alerts, jobs, call>>

\* The cron job score_computation fires: compute_all_scores_job starts.
FireScoreComputation ==
    /\ ~LoopBusy
    /\ ScoreComputationId \in jobs
    /\ ~MaxInstancesReached(ScoreComputationId)
    /\ ActiveCompanies # <<>>
    /\ BagCardinality(tasks) < MaxTasks
    /\ tasks' = AddTask(tasks, Task(ScoreComputationId, ActiveCompanies, "compute_score"))
    /\ UNCHANGED <<now, settings, is_active, financial_data, news_events,
                   credit_scores, alerts, jobs, call>>

-----------------------------------------------------------------------------
(* refresh_company_data_job(ticker), one step per await; the steps of a
   coroutine that has begun follow one another with nothing in between *)

RefreshCompanyFetchFinancial(t) ==
    LET r == Task(RefreshId(t), <<t>>, "fetch_financial") IN
    /\ BagIn(r, tasks)
    /\ HasLoop(r)
    /\ \/ \E row \in ProviderRows(t) :
             /\ FetchFinancialDataOk(t, row)
             /\ tasks' = ReplaceTask(tasks, r, Task(r.job, r.todo, "fetch_news"))
       \/ /\ FetchFinancialDataRaises(t)
          /\ Continue(r, ExceptReturns(r))
    /\ UNCHANGED <<now, settings, is_active, news_events, credit_scores, alerts,
                   jobs, call>>

RefreshCompanyFetchNews(t) ==
    LET r == Task(RefreshId(t), <<t>>, "fetch_news") IN
    /\ BagIn(r, tasks)
    /\ HasLoop(r)
    /\ \/ \E rows \in NewsBatches(t) :
             /\ FetchNewsDataOk(t, rows)
             /\ tasks' = ReplaceTask(tasks, r, Task(r.job, r.todo, "compute_score"))
       \/ /\ FetchNewsDataRaises(t)
          /\ Continue(r, ExceptReturns(r))
    /\ UNCHANGED <<now, settings, is_active, financial_data, credit_scores, alerts,
                   jobs, call>>

RefreshCompanyComputeScore(t) ==
    LET r == Task(RefreshId(t), <<t>>, "compute_score") IN
    /\ BagIn(r, tasks)
    /\ HasLoop(r)
    /\ ComputeScoreBackground(t)
    /\ tasks' = RemoveTask(tasks, r)
    /\ UNCHANGED <<now, settings, is_active, financial_data, news_events, alerts,
                   jobs, call>>

-----------------------------------------------------------------------------
(* refresh_all_data_job and compute_all_scores_job, one step per await *)

RefreshAllFetchFinancial ==
    \E r \in BagToSet(tasks) :
        /\ r.job = DataRefreshId
        /\ r.pc = "fetch_financial"
        /\ HasLoop(r)
        /\ \/ \E row \in ProviderRows(Head(r.todo)) :
                 /\ FetchFinancialDataOk(Head(r.todo), row)
                 /\ tasks' = ReplaceTask(tasks, r, Task(r.job, r.todo, "fetch_news"))
           \/ /\ FetchFinancialDataRaises(Head(r.todo))
              /\ Continue(r, NextCompany(r))
        /\ UNCHANGED <<now, settings, is_active, news_events, credit_scores, alerts,
                       jobs, call>>

RefreshAllFetchNews ==
    \E r \in BagToSet(tasks) :
        /\ r.job = DataRefreshId
        /\ r.pc = "fetch_news"
        /\ HasLoop(r)
        /\ \/ \E rows \in NewsBatches(Head(r.todo)) :
                 FetchNewsDataOk(Head(r.todo), rows)
           \/ FetchNewsDataRaises(Head(r.todo))
        /\ Continue(r, NextCompany(r))
        /\ UNCHANGED <<now, settings, is_active, financial_data, credit_scores,
                       alerts, jobs, call>>

ComputeAllScoresStep ==
    \E r \in BagToSet(tasks) :
        /\ r.job = ScoreComputationId
        /\ r.pc = "compute_score"
        /\ HasLoop(r)
        /\ ComputeScoreBackground(Head(r.todo))
        /\ Continue(r, NextCompany(r))
        /\ UNCHANGED <<now, settings, is_active, financial_data, news_events,
                       alerts, jobs, call>>

\* the background task queued by compute_credit_score runs
BackgroundComputeScore(t) ==
    LET r == Task(BackgroundId, <<t>>, "compute_score") IN
    /\ BagIn(r, tasks)
    /\ HasLoop(r)
    /\ ComputeScoreBackground(t)
    /\ tasks' = RemoveTask(tasks, r)
    /\ UNCHANGED <<now, settings, is_active, financial_data, news_events, alerts,
                   jobs, call>>

\* CompanyService.delete_company: soft delete
DeleteCompany(t) ==
    /\ ~LoopBusy
    /\ is_active[t]
    /\ is_active' = [is_active EXCEPT ![t] = FALSE]
    /\ UNCHANGED <<now, settings, financial_data, news_events, credit_scores,
                   alerts, jobs, tasks, call>>

-----------------------------------------------------------------------------
(* The specification of the refresh pipeline *)

DefaultWeights == [financial_weight |-> 4, market_weight |-> 3, news_weight |-> 3]

WeightConfigs ==
    { DefaultWeights,
      [financial_weight |-> 10, market_weight |-> 0, news_weight |-> 0],
      [financial_weight |-> 2, market_weight |-> 3, news_weight |-> 5] }

Settings(w, threshold) ==
    [financial_weight |-> w.financial_weight, market_weight |-> w.market_weight,
     news_weight |-> w.news_weight, score_change_threshold |-> threshold]

\* no direct call has been made
NoCall == [fn |-> "none", args |-> <<>>, ret |-> Null, raised |-> FALSE]

Init ==
    /\ now = 0
    /\ settings \in {Settings(w, 2000) : w \in WeightConfigs}
    /\ is_active = [t \in {Companies[1]} |-> TRUE]
    /\ financial_data = [t \in Tickers |-> Null]
    /\ news_events = [t \in Tickers |-> <<>>]
    /\ credit_scores = [t \in Tickers |-> <<>>]
    /\ alerts = <<>>
    /\ jobs = {DataRefreshId, ScoreComputationId}
    /\ tasks = EmptyBag
    /\ call = NoCall

Next ==
    \/ \E t \in Tickers : AddCompanyToScheduler(t)
    \/ \E t \in Tickers : ComputeCreditScore(t)
    \/ \E t \in Tickers : FireRefreshCompany(t)
    \/ FireDataRefresh
    \/ FireScoreComputation
    \/ \E t \in Tickers : RefreshCompanyFetchFinancial(t)
    \/ \E t \in Tickers : RefreshCompanyFetchNews(t)
    \/ \E t \in Tickers : RefreshCompanyComputeScore(t)
    \/ RefreshAllFetchFinancial
    \/ RefreshAllFetchNews
    \/ ComputeAllScoresStep
    \/ \E t \in Tickers : BackgroundComputeScore(t)
    \/ \E t \in Tickers : DeleteCompany(t)

Spec == Init /\ [][Next]_vars

-----------------------------------------------------------------------------
(* Refresh cycles in flight *)

\* the coroutine r has begun a cycle for ticker t and has not returned
MidCycle(r, t) == r.run /\ Head(r.todo) = t

InFlight(t) == BagSum(tasks, {r \in BagToSet(tasks) : MidCycle(r, t)})

\* C1: for every entity, at most one refresh/score cycle is in flight at any
\* instant, all trigger paths counted together.
C1_AtMostOneCycleInFlight ==
    \A t \in Tickers : InFlight(t) <= 1

\* the ad-hoc refresh of an entity is between its two fetches while the
\* periodic refresh of the same entity has been started by the scheduler
C1_Witness ==
    \E t \in Tickers :
        /\ BagIn(Task(RefreshId(t), <<t>>, "fetch_news"), tasks)
        /\ BagIn(Task(DataRefreshId, <<t>>, "fetch_financial"), tasks)

\* C2: two ad-hoc refresh triggers for one entity never give two concurrently
\* running refresh_company_data_job executions for it.
C2_AdhocRefreshNeverConcurrent ==
    \A t \in Tickers : Instances(RefreshId(t)) <= 1

\* a second trigger is waiting in the job store while the first job is in
\* the middle of its cycle
C2_Witness ==
    \E t \in Tickers :
        /\ RefreshId(t) \in jobs
        /\ BagIn(Task(RefreshId(t), <<t>>, "fetch_news"), tasks)

\* C3: a refresh cycle that completes with a new overall score at least
\* score_change_threshold away from the entity's previous overall score has
\* persisted a score_change alert for that entity.
C3_CompletedCycleEmitsAlert ==
    [][\A t \in Tickers :
          LET r == Task(RefreshId(t), <<t>>, "compute_score")
              n == Len(credit_scores[t])
          IN  ( /\ BagIn(r, tasks)
                /\ ~BagIn(r, tasks')
                /\ n >= 1
                /\ Len(credit_scores'[t]) = n + 1
                /\ Abs(credit_scores'[t][n + 1].overall_score
                       - credit_scores[t][n].overall_score)
                     >= Pts(settings.score_change_threshold) )
              => \E i \in DOMAIN alerts' :
                     /\ alerts'[i].company_id = t
                     /\ alerts'[i].alert_type = "score_change"]_vars

\* C4: with at least one stored Score, the score_change stored with a new
\* Score is the new overall score minus the overall score of the Score
\* stored immediately before it.
C4_ScoreChangeFromPrecedingScore ==
    \A t \in Tickers : \A i \in 2..Len(credit_scores[t]) :
        credit_scores[t][i].score_change =
            credit_scores[t][i].overall_score - credit_scores[t][i - 1].overall_score

\* C5: the Score computed for an entity with no stored Score has
\* score_change 0 and trend 'stable'.
C5_FirstScoreStable ==
    \A t \in Tickers :
        Len(credit_scores[t]) >= 1 =>
            /\ credit_scores[t][1].score_change = 0
            /\ credit_scores[t][1].trend_direction = "stable"

\* a first Score, with a non-zero overall score, has been stored
C5_Witness ==
    \E t \in Tickers :
        /\ Len(credit_scores[t]) >= 1
        /\ credit_scores[t][1].overall_score > 5 * U

\* C7: the overall score of every stored Score is exactly the weighted sum
\* of that Score's three sub-scores, and lies in [0,100].
C7_OverallIsWeightedSum ==
    \A t \in Tickers : \A i \in 1..Len(credit_scores[t]) :
        LET row == credit_scores[t][i] IN
        /\ 10 * row.overall_score =
               settings.financial_weight * row.financial_score
               + settings.market_weight * row.market_score
               + settings.news_weight * row.news_score
        /\ 0 <= row.overall_score
        /\ row.overall_score <= 100 * U

\* a Score stored under non-default weights, its sub-scores all different
C7_Witness ==
    \E t \in Tickers : \E i \in 1..Len(credit_scores[t]) :
        LET row == credit_scores[t][i] IN
        /\ settings.news_weight = 5
        /\ row.financial_score # row.market_score
        /\ row.market_score # row.news_score
        /\ row.financial_score # row.news_score

\* a coroutine at its scoring await for t takes its step
ScoringStep(t) ==
    \E r \in BagToSet(tasks) :
        /\ r.pc = "compute_score"
        /\ Head(r.todo) = t
        /\ CopiesIn(r, tasks') < CopiesIn(r, tasks)

\* C21: scores are append-only.  No step of the refresh pipeline changes or
\* removes a stored CreditScore; a score computation that finds a
\* FinancialData row adds exactly one row, after the stored ones; and the
\* latest score of a company that has scores is that last row.
C21_ScoresAppendOnly ==
    [][\A t \in Tickers :
          LET old == credit_scores[t]
              new == credit_scores'[t]
          IN  /\ \/ new = old
                 \/ /\ Len(new) = Len(old) + 1
                    /\ SubSeq(new, 1, Len(old)) = old
              /\ ScoringStep(t) /\ GetLatestFinancialData(t) # Null
                 => Len(new) = Len(old) + 1
              /\ is_active'[t] /\ new # <<>>
                 => GetLatestCreditScore(t)' = Some(new[Len(new)])]_vars

\* a second, different score has been computed for a company and is its
\* latest one
C21_Witness ==
    \E t \in Tickers :
        /\ Len(credit_scores[t]) = 2
        /\ credit_scores[t][1].overall_score # credit_scores[t][2].overall_score
        /\ GetLatestCreditScore(t) = Some(credit_scores[t][2])

-----------------------------------------------------------------------------
(* Direct calls of the scoring functions, for every input *)

DebtToEquityValues == {Null} \cup {Some(v) : v \in {-10, 0, 40, 50, 51, 100, 101, 200, 201, 100000}}
CurrentRatioValues == {Null} \cup {Some(v) : v \in {-5, 0, 99, 100, 149, 150, 199, 200, 250, 100000}}
ReturnOnEquityValues == {Null} \cup {Some(v) : v \in {-50, 0, 4, 5, 9, 10, 14, 15, 18, 100000}}
RevenueGrowthValues == {Null} \cup {Some(v) : v \in {-100, -1, 0, 4, 5, 9, 10, 12, 100000}}
PriceVolatilityValues == {Null} \cup {Some(v) : v \in {0, 20, 21, 30, 31, 40, 41, 100000}}
BetaValues == {Null} \cup {Some(v) : v \in {-50, 0, 80, 81, 120, 121, 150, 151, 100000}}
MarketCapValues == {Null} \cup {Some(v) : v \in {0, 99, 100, 999, 1000, 9999, 10000, 10000000}}

\* NewsEvent rows: every way of being, or just not being, high-risk
Signals ==
    { Event(Some(30), Some("default"), Some(40)),
      Event(Some(-100), Some("default"), Some(100)),
      Event(Some(0), Some("legal"), Some(40)),
      Event(Some(100), Some("restructuring"), Some(0)),
      Event(Some(-80), Some("earnings"), Some(40)),
      Event(Some(-51), Some("earnings"), Some(40)),
      Event(Some(-50), Some("earnings"), Some(40)),
      Event(Some(0), Some("earnings"), Some(71)),
      Event(Some(0), Some("earnings"), Some(70)),
      Event(Some(-80), Null, Some(40)),
      Event(Some(0), Null, Some(80)),
      Event(Some(100), Null, Some(0)),
      Event(Null, Some("earnings"), Some(40)) }

NewsLists == UNION {[1..n -> Signals] : n \in 0..MaxNewsArg}

FinancialInputs ==
    { Row(de, cr, roe, rg, Null, Null, Null) :
        de \in DebtToEquityValues, cr \in CurrentRatioValues,
        roe \in ReturnOnEquityValues, rg \in RevenueGrowthValues }

MarketInputs ==
    { Row(Null, Null, Null, Null, pv, beta, cap) :
        pv \in PriceVolatilityValues, beta \in BetaValues, cap \in MarketCapValues }

\* a call that has been made and has not returned yet
Pending(fn, args) == [fn |-> fn, args |-> args, ret |-> Null, raised |-> FALSE]

CallCalculateFinancialScore ==
    /\ call.fn = "_calculate_financial_score"
    /\ call.ret = Null
    /\ call' = [call EXCEPT !.ret = Some(CalculateFinancialScore(call.args[1]))]
    /\ UNCHANGED <<now, settings, is_active, financial_data, news_events,
                   credit_scores, alerts, jobs, tasks>>

CallCalculateMarketScore ==
    /\ call.fn = "_calculate_market_score"
    /\ call.ret = Null
    /\ call' = [call EXCEPT !.ret = Some(CalculateMarketScore(call.args[1]))]
    /\ UNCHANGED <<now, settings, is_active, financial_data, news_events,
                   credit_scores, alerts, jobs, tasks>>

CallCalculateNewsScore ==
    /\ call.fn = "_calculate_news_score"
    /\ call.ret = Null
    /\ call' = [call EXCEPT !.ret = Some(CalculateNewsScore(call.args[1]))]
    /\ UNCHANGED <<now, settings, is_active, financial_data, news_events,
                   credit_scores, alerts, jobs, tasks>>

CallDetermineTrendDirection ==
    /\ call.fn = "_determine_trend_direction"
    /\ call.ret = Null
    /\ call' = [call EXCEPT !.ret = Some(DetermineTrendDirection(call.args[1]))]
    /\ UNCHANGED <<now, settings, is_active, financial_data, news_events,
                   credit_scores, alerts, jobs, tasks>>

CallGenerateExplanation ==
    /\ call.fn = "_generate_explanation"
    /\ call.ret = Null
    /\ call' = [call EXCEPT
                   !.ret = Some(GenerateExplanation(call.args[1], call.args[2],
                                                    call.args[3]))]
    /\ UNCHANGED <<now, settings, is_active, financial_data, news_events,
                   credit_scores, alerts, jobs, tasks>>

\* snapshots on both sides of the bounds the explanation tests, with values
\* of 0 and missing values; news lists; score changes of either sign
ExplanationInputs ==
    { << Row(de, cr, roe, Null, pv, Null, Null), evs, sc >> :
        de \in {Null, Some(0), Some(100), Some(101)},
        cr \in {Null, Some(0), Some(99), Some(100), Some(149), Some(150)},
        roe \in {Null, Some(-1), Some(0), Some(4), Some(5)},
        pv \in {Null, Some(0), Some(40), Some(41)},
        evs \in { <<>>, <<Event(Some(-80), Some("default"), Some(80))>>,
                  <<Event(Null, Some("earnings"), Some(40))>> },
        sc \in {-3 * U, 0, 3 * U} }

\* score changes on and next to the two edges of the dead-band, in units
ScoreChanges ==
    {0, U \div 2, -100 * U, 100 * U} \cup
    {s * (5 * U + d) : s \in {-1, 1}, d \in {-1, 0, 1}}

InitScoring ==
    /\ now = 0
    /\ settings = Settings(DefaultWeights, 2000)
    /\ is_active = [t \in {Companies[1]} |-> TRUE]
    /\ financial_data = [t \in Tickers |-> Null]
    /\ news_events = [t \in Tickers |-> <<>>]
    /\ credit_scores = [t \in Tickers |-> <<>>]
    /\ alerts = <<>>
    /\ jobs = {DataRefreshId, ScoreComputationId}
    /\ tasks = EmptyBag
    /\ call \in {Pending("_calculate_financial_score", <<fd>>) : fd \in FinancialInputs}
           \cup {Pending("_calculate_market_score", <<fd>>) : fd \in MarketInputs}
           \cup {Pending("_calculate_news_score", <<evs>>) : evs \in NewsLists}
           \cup {Pending("_determine_trend_direction", <<sc>>) : sc \in ScoreChanges}
           \cup {Pending("_generate_explanation", x) : x \in ExplanationInputs}

NextScoring ==
    \/ CallCalculateFinancialScore
    \/ CallCalculateMarketScore
    \/ CallCalculateNewsScore
    \/ CallDetermineTrendDirection
    \/ CallGenerateExplanation

SpecScoring == InitScoring /\ [][NextScoring]_vars

\* C6: for every FeatureSnapshot and every list of NewsSignals, each of
\* financial_score, market_score and news_score lies in [0,100].
C6_SubScoresInRange ==
    ( /\ call.fn \in {"_calculate_financial_score", "_calculate_market_score",
                      "_calculate_news_score"}
      /\ call.ret # Null )
        => (0 <= Val(call.ret) /\ Val(call.ret) <= 100 * U)

\* the financial score of a snapshot whose adjustments add up to 110
C6_Witness ==
    /\ call.fn = "_calculate_financial_score"
    /\ call.args[1].debt_to_equity = Some(40)
    /\ call.args[1].current_ratio = Some(250)
    /\ call.args[1].return_on_equity = Some(18)
    /\ call.args[1].revenue_growth = Some(12)
    /\ call.ret = Some(100 * U)

\* C24: the financial sub-score is clamp(50 + the adjustments, 0, 100),
\* where debt-to-equity, current ratio, ROE and revenue growth each add the
\* value of their ladder when present and nothing when missing, and no
\* snapshot makes the function fail.  debt_to_equity 0.4, current_ratio 2.5,
\* ROE 0.18, revenue_growth 0.12 give 100; all four missing give 50.
C24_FinancialScoreFormula ==
    ( call.fn = "_calculate_financial_score" /\ call.ret # Null )
        => LET fd == call.args[1]
               sum == 50
                      + (IF fd.debt_to_equity = Null THEN 0
                         ELSE DebtToEquityAdj(fd.debt_to_equity))
                      + (IF fd.current_ratio = Null THEN 0
                         ELSE CurrentRatioAdj(fd.current_ratio))
                      + (IF fd.return_on_equity = Null THEN 0
                         ELSE ReturnOnEquityAdj(fd.return_on_equity))
                      + (IF fd.revenue_growth = Null THEN 0
                         ELSE RevenueGrowthAdj(fd.revenue_growth))
           IN  /\ ~call.raised
               /\ Val(call.ret) =
                      U * (IF sum < 0 THEN 0 ELSE IF sum > 100 THEN 100 ELSE sum)
               /\ ( /\ fd.debt_to_equity = Some(40)
                    /\ fd.current_ratio = Some(250)
                    /\ fd.return_on_equity = Some(18)
                    /\ fd.revenue_growth = Some(12) )
                  => Val(call.ret) = 100 * U
               /\ ( /\ fd.debt_to_equity = Null
                    /\ fd.current_ratio = Null
                    /\ fd.return_on_equity = Null
                    /\ fd.revenue_growth = Null )
                  => Val(call.ret) = 50 * U

\* the financial score of a snapshot without any of the four metrics
C24_Witness ==
    /\ call.fn = "_calculate_financial_score"
    /\ call.args[1].debt_to_equity = Null
    /\ call.args[1].current_ratio = Null
    /\ call.args[1].return_on_equity = Null
    /\ call.args[1].revenue_growth = Null
    /\ call.ret = Some(50 * U)

\* C22: the trend label depends on score_change alone, with a dead-band of
\* 5 points: "increasing" above 5, "decreasing" below -5, and "stable" from
\* -5 to 5, both endpoints included.
C22_TrendDeadBand ==
    ( call.fn = "_determine_trend_direction" /\ call.ret # Null )
        => LET score_change == call.args[1] IN
           /\ score_change > 5 * U => Val(call.ret) = "increasing"
           /\ score_change < -(5 * U) => Val(call.ret) = "decreasing"
           /\ (-(5 * U) <= score_change /\ score_change <= 5 * U)
              => Val(call.ret) = "stable"

\* a change of exactly -5 points has been labelled
C22_Witness ==
    /\ call.fn = "_determine_trend_direction"
    /\ call.args[1] = -(5 * U)
    /\ call.ret = Some("stable")

\* C25: the news sub-score is exactly 50 for an empty list, and otherwise
\* clamp(50 + 30 * average sentiment - min(20, P), 0, 100), where P is 10
\* for every article of a high-risk event type (default, legal,
\* restructuring) plus 5 for every article with a risk score above 0.7.
\* Stated for lists whose rows all have a sentiment and a risk score.
C25_NewsScoreFormula ==
    ( call.fn = "_calculate_news_score" /\ call.ret # Null )
        => LET evs == call.args[1]
               n == Len(evs)
               sentiment == SumSeq([i \in 1..n |-> Val(evs[i].sentiment_score)])
               P == 10 * Cardinality({i \in 1..n :
                                         IsHighRiskType(evs[i].event_type)})
                    + 5 * Cardinality({i \in 1..n : Val(evs[i].risk_score) > 70})
               score == 50 * U + (300 * L * sentiment) \div n
                        - U * (IF P < 20 THEN P ELSE 20)
           IN  /\ n = 0 => Val(call.ret) = 50 * U
               /\ ( /\ n > 0
                    /\ \A i \in 1..n : /\ evs[i].sentiment_score # Null
                                        /\ evs[i].risk_score # Null )
                  => Val(call.ret) = IF score < 0 THEN 0
                                     ELSE IF score > 100 * U THEN 100 * U
                                     ELSE score

\* risk_indicator is among the indicators the call has returned
IndicatorRaised(risk_indicator) ==
    \E i \in DOMAIN Val(call.ret).risk_indicators :
        Val(call.ret).risk_indicators[i] = risk_indicator

\* C26: the explanation agrees with the scoring ladders.  For every
\* snapshot, high_leverage, liquidity_concerns, poor_profitability and
\* market_volatility are raised exactly when debt-to-equity, current ratio,
\* return on equity and price volatility, respectively, are present and
\* get a negative adjustment from their ladder, a value of exactly 0
\* included.  Stated for calls that do not end in the except branch.
C26_IndicatorsMirrorLadders ==
    ( /\ call.fn = "_generate_explanation"
      /\ call.ret # Null
      /\ ~ExplanationRaises(call.args[2]) )
        => LET fd == call.args[1] IN
           /\ IndicatorRaised("high_leverage")
              <=> (fd.debt_to_equity # Null
                   /\ DebtToEquityAdj(fd.debt_to_equity) < 0)
           /\ IndicatorRaised("liquidity_concerns")
              <=> (fd.current_ratio # Null
                   /\ CurrentRatioAdj(fd.current_ratio) < 0)
           /\ IndicatorRaised("poor_profitability")
              <=> (fd.return_on_equity # Null
                   /\ ReturnOnEquityAdj(fd.return_on_equity) < 0)
           /\ IndicatorRaised("market_volatility")
              <=> (fd.price_volatility # Null
                   /\ PriceVolatilityAdj(fd.price_volatility) < 0)

\* C27: the summary is the improved sentence for a positive score_change,
\* the stable sentence for 0, and for a negative one the decreased sentence
\* citing the first two key factors; without key factors it is a generic
\* text, never a decreased sentence with an empty list of factors.
C27_SummaryTemplates ==
    ( /\ call.fn = "_generate_explanation"
      /\ call.ret # Null
      /\ ~ExplanationRaises(call.args[2]) )
        => LET score_change == call.args[3]
               summary == Val(call.ret).explanation_summary
               key_factors == Val(call.ret).key_factors
           IN  /\ score_change > 0 => summary.template = "improved"
               /\ score_change = 0 => summary.template = "stable"
               /\ (score_change < 0 /\ key_factors # <<>>)
                  => /\ summary.template = "decreased"
                     /\ summary.factors = FirstTwo(key_factors)
               /\ (score_change < 0 /\ key_factors = <<>>)
                  => summary.template # "decreased"

-----------------------------------------------------------------------------
(* AlertService: create_score_change_alert, create_news_alert *)

\* Scores handed to the alert service are in the units of the stored scores
\* (U units to the point); settings.score_change_threshold, sentiment and
\* risk scores are in hundredths.  The session's add and commit succeed.
\* A call that has returned is [fn, args, ret, raised]: ret is Null when the
\* method returned None, and raised tells an exception left the method.
Returned(fn, args, ret) == [fn |-> fn, args |-> args, ret |-> ret, raised |-> FALSE]

Raised(fn, args) == [fn |-> fn, args |-> args, ret |-> Null, raised |-> TRUE]

\* Alert(...): the columns the two constructors set and the column defaults;
\* title, message, change_percentage, related_events and created_at are text
\* and time that no decision reads
\* the primary key the database gives a new row: one more than the largest
\* id in the table (the rowid of the default sqlite database)
NextAlertId ==
    IF alerts = <<>> THEN 1
    ELSE 1 + (CHOOSE m \in {alerts[i].id : i \in DOMAIN alerts} :
                 \A i \in DOMAIN alerts : alerts[i].id <= m)

AlertRow(t, type, severity, change, prev, cur, trigger, threshold, ctx) ==
    [id |-> NextAlertId, company_id |-> t, alert_type |-> type,
     severity |-> severity, score_change |-> change, previous_score |-> prev,
     current_score |-> cur, trigger_value |-> trigger,
     threshold_value |-> threshold, context_data |-> ctx,
     is_read |-> FALSE, is_acknowledged |-> FALSE, acknowledged_by |-> Null,
     acknowledged_at |-> Null, expires_at |-> Null]

\* two alerts derived from the same trigger: the same company and the same
\* score pair or the same news event
SameTrigger(a, b) ==
    /\ a.company_id = b.company_id
    /\ a.alert_type = b.alert_type
    /\ a.previous_score = b.previous_score
    /\ a.current_score = b.current_score
    /\ a.trigger_value = b.trigger_value
    /\ a.context_data = b.context_data

\* The alerts table of the model holds MaxAlerts rows, and one row more
\* when that row repeats the trigger of a stored one.
HasRoom(alert) ==
    \/ Len(alerts) < MaxAlerts
    \/ /\ Len(alerts) = MaxAlerts
       /\ \E i \in DOMAIN alerts : SameTrigger(alerts[i], alert)

ScoreChangeAtOrBelowThreshold(score_change) ==
    Abs(score_change) <= Pts(settings.score_change_threshold)

\* abs(score_change) < self.score_change_threshold
ScoreChangeBelowThreshold(score_change) ==
    Abs(score_change) < Pts(settings.score_change_threshold)

\* a ladder whose "high" rung starts at 25 points
ScoreChangeSeverityHighFrom25(score_change) ==
    IF Abs(score_change) >= Pts(3000) THEN "critical"
    ELSE IF Abs(score_change) >= Pts(2500) THEN "high"
    ELSE IF Abs(score_change) >= Pts(1000) THEN "medium"
    ELSE "low"

ScoreChangeSeverityStrict(score_change) ==
    IF Abs(score_change) > Pts(3000) THEN "critical"
    ELSE IF Abs(score_change) > Pts(2000) THEN "high"
    ELSE IF Abs(score_change) > Pts(1000) THEN "medium"
    ELSE "low"

ScoreChangeSeverity(score_change) ==
    IF Abs(score_change) >= Pts(3000) THEN "critical"
    ELSE IF Abs(score_change) >= Pts(2000) THEN "high"
    ELSE IF Abs(score_change) >= Pts(1000) THEN "medium"
    ELSE "low"

ScoreChangeAlert(t, previous_score, current_score) ==
    LET score_change == current_score - previous_score
    IN  AlertRow(t, "score_change", ScoreChangeSeverity(score_change),
                 Some(score_change), Some(previous_score), Some(current_score),
                 Some(score_change), Some(Pts(settings.score_change_threshold)),
                 [change_direction |-> IF score_change > 0 THEN "increase" ELSE "decrease",
                  change_magnitude |-> Abs(score_change)])

CreateScoreChangeAlert(t, previous_score, current_score) ==
    LET args == <<t, previous_score, current_score>>
        alert == ScoreChangeAlert(t, previous_score, current_score)
    IN  /\ IF ScoreChangeBelowThreshold(current_score - previous_score)
           THEN /\ call' = Returned("create_score_change_alert", args, Null)
                /\ UNCHANGED alerts
           ELSE /\ HasRoom(alert)
                /\ alerts' = Append(alerts, alert)
                /\ call' = Returned("create_score_change_alert", args, Some(alert))
        /\ UNCHANGED <<now, settings, is_active, financial_data, news_events,
                       credit_scores, jobs, tasks>>

AlertHighRiskEvents == {"default", "legal", "restructuring"}

\* the comparisons of a missing sentiment_score or risk_score raise TypeError
IsHighRiskNewsRaises(news_event) ==
    news_event.sentiment_score = Null \/ news_event.risk_score = Null

IsHighRiskNewsInclusive(news_event) ==
    \/ /\ news_event.event_type # Null
       /\ Val(news_event.event_type) \in AlertHighRiskEvents
    \/ Val(news_event.sentiment_score) <= -50
    \/ Val(news_event.risk_score) >= 70

IsHighRiskNews(news_event) ==
    \/ /\ news_event.event_type # Null
       /\ Val(news_event.event_type) \in AlertHighRiskEvents
    \/ Val(news_event.sentiment_score) < -50
    \/ Val(news_event.risk_score) > 70

DetermineNewsSeverityInclusive(news_event) ==
    IF news_event.event_type = Some("default") THEN "critical"
    ELSE IF news_event.event_type \in {Some("legal"), Some("restructuring")} THEN "high"
    ELSE IF Val(news_event.sentiment_score) <= -70 THEN "high"
    ELSE IF Val(news_event.sentiment_score) <= -30 THEN "medium"
    ELSE "low"

\* the comparison of a missing sentiment_score raises TypeError, when the
\* event type does not settle the severity before it
DetermineNewsSeverityRaises(news_event) ==
    /\ news_event.event_type \notin {Some("default"), Some("legal"), Some("restructuring")}
    /\ news_event.sentiment_score = Null

DetermineNewsSeverity(news_event) ==
    IF news_event.event_type = Some("default") THEN "critical"
    ELSE IF news_event.event_type \in {Some("legal"), Some("restructuring")} THEN "high"
    ELSE IF Val(news_event.sentiment_score) < -70 THEN "high"
    ELSE IF Val(news_event.sentiment_score) < -30 THEN "medium"
    ELSE "low"

\* news_event.event_type.title() raises AttributeError on a missing event
\* type; headline and published_at are set on every stored NewsEvent
NewsAlertRaises(news_event) == news_event.event_type = Null

NewsAlert(t, news_event) ==
    AlertRow(t, "news_event", DetermineNewsSeverity(news_event),
             Null, Null, Null, news_event.risk_score, Some(70),
             [event_type |-> news_event.event_type,
              sentiment_score |-> news_event.sentiment_score,
              risk_score |-> news_event.risk_score])

CreateNewsAlert(t, news_event) ==
    LET args == <<t, news_event>>
        alert == NewsAlert(t, news_event)
    IN  /\ IF \/ IsHighRiskNewsRaises(news_event)
              \/ ~IsHighRiskNews(news_event)
              \/ NewsAlertRaises(news_event)
           THEN /\ call' = Returned("create_news_alert", args, Null)
                /\ UNCHANGED alerts
           ELSE /\ HasRoom(alert)
                /\ alerts' = Append(alerts, alert)
                /\ call' = Returned("create_news_alert", args, Some(alert))
        /\ UNCHANGED <<now, settings, is_active, financial_data, news_events,
                       credit_scores, jobs, tasks>>

CallIsHighRiskNews(news_event) ==
    /\ call' = IF IsHighRiskNewsRaises(news_event)
               THEN Raised("_is_high_risk_news", <<news_event>>)
               ELSE Returned("_is_high_risk_news", <<news_event>>,
                             Some(IsHighRiskNews(news_event)))
    /\ UNCHANGED <<now, settings, is_active, financial_data, news_events,
                   credit_scores, alerts, jobs, tasks>>

CallDetermineNewsSeverity(news_event) ==
    /\ call' = IF DetermineNewsSeverityRaises(news_event)
               THEN Raised("_determine_news_severity", <<news_event>>)
               ELSE Returned("_determine_news_severity", <<news_event>>,
                             Some(DetermineNewsSeverity(news_event)))
    /\ UNCHANGED <<now, settings, is_active, financial_data, news_events,
                   credit_scores, alerts, jobs, tasks>>

\* the NewsEvent rows handed to the alert service: Signals and the rows at
\* the two sentiment steps of the severity ladder
AlertSignals ==
    Signals \cup
    { Event(Some(-71), Some("earnings"), Some(40)),
      Event(Some(-70), Some("earnings"), Some(40)),
      Event(Some(-31), Some("earnings"), Some(80)),
      Event(Some(-30), Some("earnings"), Some(80)) }

\* SCORE_CHANGE_THRESHOLD as deployments set it, the default 20.0 included
ThresholdConfigs == {500, 1000, 2000}

\* previous and current overall scores, in hundredths of a point
ScorePairs ==
    { <<7000, 4500>>, <<5000, 7000>>, <<5001, 7000>>, <<1000, 4000>>,
      <<1001, 4000>>, <<4000, 5000>>, <<4001, 5000>>, <<5000, 5400>>,
      <<5000, 5500>>, <<5000, 5499>>, <<0, 3000>>, <<9000, 6000>>,
      <<6000, 6000>> }

InitAlert ==
    /\ now = 0
    /\ settings \in {Settings(DefaultWeights, thr) : thr \in ThresholdConfigs}
    /\ is_active = [t \in {Companies[1]} |-> TRUE]
    /\ financial_data = [t \in Tickers |-> Null]
    /\ news_events = [t \in Tickers |-> <<>>]
    /\ credit_scores = [t \in Tickers |-> <<>>]
    /\ alerts = <<>>
    /\ jobs = {DataRefreshId, ScoreComputationId}
    /\ tasks = EmptyBag
    /\ call = NoCall

NextAlert ==
    \/ \E t \in Tickers, p \in ScorePairs :
           CreateScoreChangeAlert(t, Pts(p[1]), Pts(p[2]))
    \/ \E t \in Tickers, ev \in AlertSignals : CreateNewsAlert(t, ev)
    \/ \E ev \in AlertSignals : CallIsHighRiskNews(ev)
    \/ \E ev \in AlertSignals : CallDetermineNewsSeverity(ev)

SpecAlert == InitAlert /\ [][NextAlert]_vars

-----------------------------------------------------------------------------
(* Claims about the alert service, under SpecAlert *)

\* C8: create_score_change_alert emits an alert if and only if
\* |current - previous| >= score_change_threshold: at the threshold it
\* returns the alert it has persisted, below it (19.99 against 20.0) it
\* returns None and persists nothing.
C8_ScoreChangeAlertIffThreshold ==
    [][ call'.fn = "create_score_change_alert" =>
          LET delta == call'.args[3] - call'.args[2]
              magnitude == IF delta < 0 THEN -delta ELSE delta
          IN  IF 100 * magnitude >= settings.score_change_threshold * U
              THEN /\ call'.ret # Null
                   /\ alerts' = Append(alerts, Val(call'.ret))
              ELSE /\ call'.ret = Null
                   /\ alerts' = alerts ]_vars

\* threshold 20.0: the change 50.0 -> 70.0 has been persisted, and the call
\* with 50.01 -> 70.0 has then returned None and added nothing
C8_Witness ==
    /\ settings.score_change_threshold = 2000
    /\ Len(alerts) = 1
    /\ alerts[1].alert_type = "score_change"
    /\ alerts[1].previous_score = Some(50 * U)
    /\ alerts[1].current_score = Some(70 * U)
    /\ call.fn = "create_score_change_alert"
    /\ 100 * call.args[2] = 5001 * U
    /\ call.args[3] = 70 * U
    /\ call.ret = Null

\* C9: every alert create_score_change_alert emits has type 'score_change'
\* and the severity of |delta| alone: critical from 30, high from 20, medium
\* from 10, low below.
C9_ScoreChangeSeverityLadder ==
    /\ (call.fn = "create_score_change_alert" /\ call.ret # Null)
           => /\ Val(call.ret).alert_type = "score_change"
              /\ Val(call.ret).score_change = Some(call.args[3] - call.args[2])
    /\ \A i \in 1..Len(alerts) :
           alerts[i].score_change # Null =>
               LET delta == Val(alerts[i].score_change)
                   magnitude == IF delta < 0 THEN -delta ELSE delta
               IN  /\ alerts[i].alert_type = "score_change"
                   /\ alerts[i].severity =
                          CASE magnitude >= 30 * U -> "critical"
                            [] magnitude >= 20 * U /\ magnitude < 30 * U -> "high"
                            [] magnitude >= 10 * U /\ magnitude < 20 * U -> "medium"
                            [] magnitude < 10 * U -> "low"

\* previous 70.0, current 45.0: delta -25.0, severity 'high'
C9_Witness ==
    /\ call.fn = "create_score_change_alert"
    /\ call.args[2] = 70 * U
    /\ call.args[3] = 45 * U
    /\ call.ret # Null
    /\ Val(call.ret).severity = "high"
    /\ Val(call.ret).score_change = Some(-25 * U)
    /\ alerts[Len(alerts)] = Val(call.ret)

\* C10: a NewsSignal (it has a sentiment and a risk score; its event type
\* may be missing) is treated as high-risk exactly when its event type is
\* default, legal or restructuring, or its sentiment is < -0.5, or its risk
\* score is > 0.7; and create_news_alert returns None and persists nothing
\* for a signal that is not high-risk.
C10_NonHighRiskNewsNeverAlerts ==
    [][ LET ev == call'.args[Len(call'.args)]
            high_risk ==
                \/ ev.event_type \in {<<"default">>, <<"legal">>, <<"restructuring">>}
                \/ (ev.sentiment_score # <<>> /\ ev.sentiment_score[1] < -50)
                \/ (ev.risk_score # <<>> /\ ev.risk_score[1] > 70)
        IN  /\ ( /\ call'.fn = "_is_high_risk_news"
                 /\ ev.sentiment_score # <<>>
                 /\ ev.risk_score # <<>> )
                   => (~call'.raised /\ call'.ret = <<high_risk>>)
            /\ (call'.fn = "create_news_alert" /\ ~high_risk)
                   => (call'.ret = <<>> /\ alerts' = alerts) ]_vars

\* an alert for a high-risk signal is stored, and create_news_alert has then
\* returned None for a signal at sentiment -0.5 exactly, adding nothing
C10_Witness ==
    /\ Len(alerts) = 1
    /\ alerts[1].alert_type = "news_event"
    /\ alerts[1].context_data.event_type = Some("legal")
    /\ call.fn = "create_news_alert"
    /\ call.args[2] = Event(Some(-50), Some("earnings"), Some(40))
    /\ call.ret = Null

\* C11: the severity of a news_event alert is critical for event type
\* default whatever the sentiment and risk score, high for legal and
\* restructuring, and otherwise high below sentiment -0.7, medium below
\* -0.3 and low in every other case.
C11_NewsSeverityLadder ==
    LET severity(ty, s) ==
            CASE ty = <<"default">> -> "critical"
              [] ty \in {<<"legal">>, <<"restructuring">>} -> "high"
              [] OTHER -> IF s[1] >= -30 THEN "low"
                          ELSE IF s[1] >= -70 THEN "medium"
                          ELSE "high"
    IN  /\ \A i \in 1..Len(alerts) :
               alerts[i].alert_type = "news_event" =>
                   alerts[i].severity =
                       severity(alerts[i].context_data.event_type,
                                alerts[i].context_data.sentiment_score)
        /\ ( /\ call.fn = "_determine_news_severity"
             /\ call.args[1].sentiment_score # <<>> )
               => /\ ~call.raised
                  /\ call.ret = <<severity(call.args[1].event_type,
                                           call.args[1].sentiment_score)>>

\* a default event with a positive sentiment and a low risk score has been
\* alerted as critical
C11_Witness ==
    \E i \in 1..Len(alerts) :
        /\ alerts[i].alert_type = "news_event"
        /\ alerts[i].context_data.event_type = Some("default")
        /\ alerts[i].context_data.sentiment_score = Some(30)
        /\ alerts[i].context_data.risk_score = Some(40)
        /\ alerts[i].severity = "critical"

\* C12: for every high-risk NewsSignal, one with a missing event type that
\* qualifies through its sentiment or risk score included, create_news_alert
\* persists and returns exactly one alert of type 'news_event' made from
\* that signal.
C12_HighRiskNewsAlwaysAlerts ==
    [][ LET ev == call'.args[2]
            high_risk ==
                \/ ev.event_type \in {<<"default">>, <<"legal">>, <<"restructuring">>}
                \/ ev.sentiment_score[1] < -50
                \/ ev.risk_score[1] > 70
        IN  ( /\ call'.fn = "create_news_alert"
              /\ ev.sentiment_score # <<>>
              /\ ev.risk_score # <<>>
              /\ high_risk )
                => /\ call'.ret # <<>>
                   /\ call'.ret[1].alert_type = "news_event"
                   /\ call'.ret[1].context_data.sentiment_score = ev.sentiment_score
                   /\ alerts' = Append(alerts, call'.ret[1]) ]_vars

\* C28: the alert engine deduplicates.  However often the same score pair
\* or the same news event of a company is evaluated, at most one alert for
\* that trigger is in the table.
C28_AtMostOneAlertPerTrigger ==
    \A i, j \in DOMAIN alerts :
        SameTrigger(alerts[i], alerts[j]) => i = j

\* C30: with a threshold of at least 20 points every score_change alert is
\* "high" or "critical"; a "medium" one exists only under a threshold below
\* 20 and a "low" one only under a threshold below 10.
C30_DefaultThresholdOnlyHighOrCritical ==
    \A i \in DOMAIN alerts :
        alerts[i].alert_type = "score_change"
        => /\ settings.score_change_threshold >= 2000
              => alerts[i].severity \in {"high", "critical"}
           /\ alerts[i].severity = "medium"
              => settings.score_change_threshold < 2000
           /\ alerts[i].severity = "low"
              => settings.score_change_threshold < 1000

\* under the default threshold a change of exactly 20 points has raised a
\* "high" alert
C30_Witness ==
    /\ settings.score_change_threshold = 2000
    /\ \E i \in DOMAIN alerts :
           /\ alerts[i].alert_type = "score_change"
           /\ Abs(Val(alerts[i].score_change)) = Pts(2000)
           /\ alerts[i].severity = "high"

-----------------------------------------------------------------------------
(* AlertService: mark_alert_read, acknowledge_alert, cleanup_expired_alerts *)

\* a day passes
Tick ==
    /\ now < MaxTime
    /\ now' = now + 1
    /\ UNCHANGED <<settings, is_active, financial_data, news_events,
                   credit_scores, alerts, jobs, tasks, call>>

\* db.query(Alert).filter(Alert.id == alert_id).first(): the positions of
\* the row in the table, none for an unknown id
AlertById(alert_id) == {i \in DOMAIN alerts : alerts[i].id = alert_id}

MarkedReadToggled(alert) == [alert EXCEPT !.is_read = ~@]

\* alert.is_read = True
MarkedRead(alert) == [alert EXCEPT !.is_read = TRUE]

MarkAlertRead(alert_id) ==
    /\ IF AlertById(alert_id) = {}
       THEN /\ call' = Returned("mark_alert_read", <<alert_id>>, Some(FALSE))
            /\ UNCHANGED alerts
       ELSE \E i \in AlertById(alert_id) :
                /\ alerts' = [alerts EXCEPT ![i] = MarkedRead(@)]
                /\ call' = Returned("mark_alert_read", <<alert_id>>, Some(TRUE))
    /\ UNCHANGED <<now, settings, is_active, financial_data, news_events,
                   credit_scores, jobs, tasks>>

AcknowledgedEscalated(alert, acknowledged_by) ==
    [alert EXCEPT !.is_acknowledged = TRUE,
                  !.acknowledged_by = Some(acknowledged_by),
                  !.acknowledged_at = Some(now),
                  !.severity = "critical"]

\* alert.is_acknowledged = True; alert.acknowledged_by = acknowledged_by;
\* alert.acknowledged_at = datetime.now()
Acknowledged(alert, acknowledged_by) ==
    [alert EXCEPT !.is_acknowledged = TRUE,
                  !.acknowledged_by = Some(acknowledged_by),
                  !.acknowledged_at = Some(now)]

AcknowledgeAlert(alert_id, acknowledged_by) ==
    LET args == <<alert_id, acknowledged_by>> IN
    /\ IF AlertById(alert_id) = {}
       THEN /\ call' = Returned("acknowledge_alert", args, Some(FALSE))
            /\ UNCHANGED alerts
       ELSE \E i \in AlertById(alert_id) :
                /\ alerts' = [alerts EXCEPT ![i] = Acknowledged(@, acknowledged_by)]
                /\ call' = Returned("acknowledge_alert", args, Some(TRUE))
    /\ UNCHANGED <<now, settings, is_active, financial_data, news_events,
                   credit_scores, jobs, tasks>>

\* a sweep that takes a row without expiry for an expired one
ExpiredOrUnset(alert) ==
    alert.expires_at = Null \/ Val(alert.expires_at) < now

ExpiredInclusive(alert) ==
    alert.expires_at # Null /\ Val(alert.expires_at) <= now

\* Alert.expires_at < datetime.now(); a NULL expires_at compares as unknown
\* and the row is not selected
Expired(alert) ==
    alert.expires_at # Null /\ Val(alert.expires_at) < now

\* cleanup_expired_alerts, which cleanup_alerts_job calls every six hours
CleanupExpiredAlerts ==
    LET expired_alerts == SelectSeq(alerts, Expired) IN
    /\ alerts' = SelectSeq(alerts, LAMBDA alert : ~Expired(alert))
    /\ call' = Returned("cleanup_expired_alerts", <<>>, Some(Len(expired_alerts)))
    /\ UNCHANGED <<now, settings, is_active, financial_data, news_events,
                   credit_scores, jobs, tasks>>

\* who acknowledges
Users == {"alice", "bob"}

\* the ids the callers pass: those of the rows and one that is unknown
AlertIds == 1..(MaxAlerts + 1)

\* A row of the alerts table that carries an expiry.  The two constructors of
\* this service leave expires_at unset; rows with an expiry are written to
\* the table by its other clients, and cleanup_expired_alerts is for them.
StoredAlert(t, expires_at) ==
    [id |-> 1, company_id |-> t, alert_type |-> "score_change",
     severity |-> "high", score_change |-> Some(-25 * U),
     previous_score |-> Some(70 * U), current_score |-> Some(45 * U),
     trigger_value |-> Some(-25 * U), threshold_value |-> Some(Pts(2000)),
     context_data |-> [change_direction |-> "decrease",
                       change_magnitude |-> 25 * U],
     is_read |-> FALSE, is_acknowledged |-> FALSE, acknowledged_by |-> Null,
     acknowledged_at |-> Null, expires_at |-> Some(expires_at)]

InitAlertState ==
    /\ now = 0
    /\ settings = Settings(DefaultWeights, 2000)
    /\ is_active = [t \in {Companies[1]} |-> TRUE]
    /\ financial_data = [t \in Tickers |-> Null]
    /\ news_events = [t \in Tickers |-> <<>>]
    /\ credit_scores = [t \in Tickers |-> <<>>]
    /\ alerts \in {<<>>} \cup {<<StoredAlert(t, 1)>> : t \in Tickers}
    /\ jobs = {DataRefreshId, ScoreComputationId}
    /\ tasks = EmptyBag
    /\ call = NoCall

NextAlertState ==
    \/ \E t \in Tickers : CreateScoreChangeAlert(t, 70 * U, 45 * U)
    \/ \E t \in Tickers :
           CreateNewsAlert(t, Event(Some(-80), Some("earnings"), Some(40)))
    \/ \E alert_id \in AlertIds : MarkAlertRead(alert_id)
    \/ \E alert_id \in AlertIds, by \in Users : AcknowledgeAlert(alert_id, by)
    \/ CleanupExpiredAlerts
    \/ Tick

SpecAlertState == InitAlertState /\ [][NextAlertState]_vars

-----------------------------------------------------------------------------
(* Claims about the state of an alert, under SpecAlertState *)

\* C13: once an alert has been acknowledged, a later acknowledge_alert call
\* on it, by the same or another user, leaves is_acknowledged,
\* acknowledged_by and acknowledged_at as they were.
C13_AcknowledgeIdempotentOnceSet ==
    [][ \A i \in DOMAIN alerts :
          ( /\ alerts[i].is_acknowledged
            /\ call'.fn = "acknowledge_alert"
            /\ call'.args[1] = alerts[i].id
            /\ i \in DOMAIN alerts' )
              => /\ alerts'[i].is_acknowledged
                 /\ alerts'[i].acknowledged_by = alerts[i].acknowledged_by
                 /\ alerts'[i].acknowledged_at = alerts[i].acknowledged_at ]_vars

\* C14: after mark_alert_read succeeds the alert is read and nothing else
\* has changed, a repeated call changes nothing, no step takes is_read back
\* to false, and a call with an unknown id returns false and changes no
\* alert.
C14_MarkReadIdempotentMonotone ==
    [][ LET known == {i \in DOMAIN alerts : alerts[i].id = call'.args[1]}
        IN  /\ (call'.fn = "mark_alert_read" /\ known # {})
                 => /\ call'.ret = <<TRUE>>
                    /\ DOMAIN alerts' = DOMAIN alerts
                    /\ \A i \in DOMAIN alerts :
                           IF i \in known
                           THEN /\ alerts'[i].is_read
                                /\ alerts[i].is_read => alerts'[i] = alerts[i]
                                /\ [alerts'[i] EXCEPT !.is_read = FALSE]
                                       = [alerts[i] EXCEPT !.is_read = FALSE]
                           ELSE alerts'[i] = alerts[i]
            /\ (call'.fn = "mark_alert_read" /\ known = {})
                 => /\ call'.ret = <<FALSE>>
                    /\ alerts' = alerts
            /\ \A i \in DOMAIN alerts, j \in DOMAIN alerts' :
                   (alerts[i].id = alerts'[j].id /\ alerts[i].is_read)
                       => alerts'[j].is_read ]_vars

\* an alert that was read and then acknowledged has been marked read again
C14_Witness ==
    /\ call.fn = "mark_alert_read"
    /\ call.ret = Some(TRUE)
    /\ \E i \in DOMAIN alerts :
           /\ alerts[i].id = call.args[1]
           /\ alerts[i].is_read
           /\ alerts[i].is_acknowledged

\* C15: an alert leaves the table only in a cleanup sweep and only when its
\* expires_at is earlier than now; the sweep removes every such alert,
\* read or not, acknowledged or not, and keeps every other alert as it is.
C15_RemovedOnlyWhenExpired ==
    [][ LET sweep == call'.fn = "cleanup_expired_alerts" /\ now' = now
            expired(a) == a.expires_at # <<>> /\ a.expires_at[1] < now
            kept(a) == \E j \in DOMAIN alerts' : alerts'[j] = a
        IN  /\ \A i \in DOMAIN alerts :
                   (~\E j \in DOMAIN alerts' : alerts'[j].id = alerts[i].id)
                       => (sweep /\ expired(alerts[i]))
            /\ sweep => \A i \in DOMAIN alerts :
                            kept(alerts[i]) <=> ~expired(alerts[i]) ]_vars

\* the sweep of day 2 has removed the alert that expired on day 1
C15_Witness ==
    /\ call.fn = "cleanup_expired_alerts"
    /\ call.ret = Some(1)
    /\ now = 2
    /\ alerts = <<>>

\* C16: severity, type, trigger value and threshold value of an alert are
\* those it was created with, whatever mark_alert_read, acknowledge_alert
\* and the cleanup sweep do.
C16_SeverityImmutable ==
    [][ \A i \in DOMAIN alerts, j \in DOMAIN alerts' :
          alerts[i].id = alerts'[j].id
              => /\ alerts'[j].severity = alerts[i].severity
                 /\ alerts'[j].alert_type = alerts[i].alert_type
                 /\ alerts'[j].trigger_value = alerts[i].trigger_value
                 /\ alerts'[j].threshold_value = alerts[i].threshold_value ]_vars

\* a 'high' alert has been read and acknowledged and has survived a sweep
C16_Witness ==
    /\ call.fn = "cleanup_expired_alerts"
    /\ \E i \in DOMAIN alerts :
           /\ alerts[i].severity = "high"
           /\ alerts[i].is_read
           /\ alerts[i].is_acknowledged

\* C29: the alerts the two constructors create carry no expires_at, and an
\* alert without expires_at is never removed: whatever is done at whatever
\* time, sweeps included, it is still in the table after the step.
C29_EngineAlertsOnlyGrow ==
    [][/\ ( call'.fn \in {"create_score_change_alert", "create_news_alert"}
            /\ call'.ret # Null )
          => Val(call'.ret).expires_at = Null
       /\ \A i \in DOMAIN alerts :
             alerts[i].expires_at = Null
             => \E j \in DOMAIN alerts' : alerts'[j].id = alerts[i].id]_vars

\* a sweep on day 2 has run over a table with an alert of the engine and
\* has left it there
C29_Witness ==
    /\ call.fn = "cleanup_expired_alerts"
    /\ now = 2
    /\ \E i \in DOMAIN alerts :
           /\ alerts[i].expires_at = Null
           /\ alerts[i].alert_type = "news_event"

-----------------------------------------------------------------------------
(* The batch jobs over two companies: refresh_all_data_job and
   compute_all_scores_job, with companies deactivated between and before
   the runs of a job *)

InitBatch ==
    /\ now = 0
    /\ settings = Settings(DefaultWeights, 2000)
    /\ is_active = [t \in {Companies[i] : i \in DOMAIN Companies} |-> TRUE]
    /\ financial_data = [t \in Tickers |-> Null]
    /\ news_events = [t \in Tickers |-> <<>>]
    /\ credit_scores = [t \in Tickers |-> <<>>]
    /\ alerts = <<>>
    /\ jobs = {DataRefreshId, ScoreComputationId}
    /\ tasks = EmptyBag
    /\ call = NoCall

NextBatch ==
    \/ FireDataRefresh
    \/ FireScoreComputation
    \/ RefreshAllFetchFinancial
    \/ RefreshAllFetchNews
    \/ ComputeAllScoresStep
    \/ \E t \in Tickers : DeleteCompany(t)

SpecBatch == InitBatch /\ [][NextBatch]_vars

\* C17: a batch job is never cut short.  Whatever happens to the company it
\* is at (the fetch raises, there is no data to score), a step of
\* refresh_all_data_job or compute_all_scores_job that has companies left
\* either stays at its company (next await) or goes on to the next one; the
\* job ends only at the last company of its list.
C17_BatchNeverAborted ==
    [][\A r \in BagToSet(tasks) :
          ( /\ r.job \in {DataRefreshId, ScoreComputationId}
            /\ ~BagIn(r, tasks')
            /\ Len(r.todo) > 1 )
          => \E q \in BagToSet(tasks') :
                 /\ q.job = r.job
                 /\ q.run
                 /\ q.todo \in {r.todo, Tail(r.todo)}]_vars

\* refresh_all_data_job has gone on to the second company after the fetch
\* for the first one raised
C17_Witness ==
    \E r \in BagToSet(tasks) :
        /\ r.job = DataRefreshId
        /\ r.run
        /\ r.pc = "fetch_financial"
        /\ r.todo = <<Companies[2]>>
        /\ financial_data[Companies[1]] = Null
        /\ is_active[Companies[1]]

\* C18: a Score is written for a company only while a FinancialData row is
\* available for it, that is, the company is active and has a row stored.
\* (_get_latest_financial_data answers None for an unknown company by the
\* same query that filters inactive ones; _compute_score_background has no
\* raising exit, its whole body is in try/except, so the jobs that await it
\* always go on.)
C18_NoSnapshotNoScore ==
    [][\A t \in Tickers :
          credit_scores'[t] # credit_scores[t]
          => financial_data[t] # Null /\ is_active[t]]_vars

\* compute_all_scores_job has gone past the first company, which had no
\* FinancialData row or was inactive, without writing a score for it
C18_Witness ==
    \E r \in BagToSet(tasks) :
        /\ r.job = ScoreComputationId
        /\ r.run
        /\ r.todo = <<Companies[2]>>
        /\ GetLatestFinancialData(Companies[1]) = Null
        /\ credit_scores[Companies[1]] = <<>>

-----------------------------------------------------------------------------
(* refresh_company_data_job over two companies, with companies deactivated
   while their one-shot jobs wait *)

NextRefresh ==
    \/ \E t \in Tickers : AddCompanyToScheduler(t)
    \/ \E t \in Tickers : FireRefreshCompany(t)
    \/ \E t \in Tickers : RefreshCompanyFetchFinancial(t)
    \/ \E t \in Tickers : RefreshCompanyFetchNews(t)
    \/ \E t \in Tickers : RefreshCompanyComputeScore(t)
    \/ \E t \in Tickers : DeleteCompany(t)

SpecRefresh == InitBatch /\ [][NextRefresh]_vars

\* The financial fetch of a refresh cycle of t has raised in this step: the
\* cycle has left its first await, and either the company is inactive
\* (fetch_financial_data raises ValueError) or there is still no row for it
\* (a fetch that returns stores one).
FetchRaised(t) ==
    /\ \E r \in BagToSet(tasks) :
           /\ r.job = RefreshId(t)
           /\ r.pc = "fetch_financial"
           /\ ~BagIn(r, tasks')
    /\ \/ ~is_active[t]
       \/ financial_data[t] = Null /\ financial_data'[t] = Null

-----------------------------------------------------------------------------
(* daily_maintenance_job: the retention sweep.  Time is in days; a row's
   age is now minus its date.  financial_data holds the latest row of each
   company, which is the last one the sweep can delete. *)

DataRetentionDays == 90
ScoreRetentionDays == 30

\* db.query(FinancialData).filter(FinancialData.date < cutoff_date).delete()
DeleteOldFinancialData ==
    [t \in Tickers |->
        IF financial_data[t] # Null
           /\ Val(financial_data[t]).date < now - DataRetentionDays
        THEN Null ELSE financial_data[t]]

\* db.query(NewsEvent).filter(NewsEvent.published_at < cutoff_date).delete()
DeleteOldNewsEvents ==
    [t \in Tickers |->
        SelectSeq(news_events[t],
                  LAMBDA ev : ~(ev.published_at < now - DataRetentionDays))]

\* db.query(CreditScore).filter(CreditScore.calculated_at < score_cutoff).delete()
DeleteOldCreditScores ==
    [t \in Tickers |->
        SelectSeq(credit_scores[t],
                  LAMBDA sc : ~(sc.calculated_at < now - ScoreRetentionDays))]

\* a rollback that undoes all but the first delete
RollbackKeepsFirstDelete ==
    [financial_data |-> DeleteOldFinancialData, news_events |-> news_events,
     credit_scores |-> credit_scores]

\* db.rollback(): the tables as they were when the session began
Rollback ==
    [financial_data |-> financial_data, news_events |-> news_events,
     credit_scores |-> credit_scores]

\* the job when the three deletes and the commit succeed
DailyMaintenanceJob ==
    /\ financial_data' = DeleteOldFinancialData
    /\ news_events' = DeleteOldNewsEvents
    /\ credit_scores' = DeleteOldCreditScores
    /\ call' = Returned("daily_maintenance_job", <<>>, Null)
    /\ UNCHANGED <<now, settings, is_active, alerts, jobs, tasks>>

\* the job when a delete or the commit raises: the except branch logs,
\* rolls the session back, and the job returns
DailyMaintenanceJobRollsBack ==
    /\ financial_data' = Rollback.financial_data
    /\ news_events' = Rollback.news_events
    /\ credit_scores' = Rollback.credit_scores
    /\ call' = Returned("daily_maintenance_job", <<>>, Null)
    /\ UNCHANGED <<now, settings, is_active, alerts, jobs, tasks>>

\* the day the sweep runs on, and dates on both sides of the two cutoffs
SweepDay == DataRetentionDays + ScoreRetentionDays
DataDates == {SweepDay - DataRetentionDays + d : d \in {-1, 0, 1}}
ScoreDates == {SweepDay - ScoreRetentionDays + d : d \in {-1, 0, 1}}

\* a CreditScore row calculated on day d
StoredScore(d) ==
    [overall_score |-> 50 * U, financial_score |-> 50 * U,
     market_score |-> 50 * U, news_score |-> 50 * U, score_change |-> 0,
     trend_direction |-> "stable", calculated_at |-> d]

\* the rows of a company, in the order they were inserted
StoredNews ==
    {ne \in UNION {[1..n -> {Event(Some(-80), Some("default"), Some(80))
                                @@ [published_at |-> d] : d \in DataDates}]
                      : n \in 0..MaxNews} :
        \A i, j \in DOMAIN ne :
            i < j => ne[i].published_at <= ne[j].published_at}

StoredScores ==
    {cs \in UNION {[1..n -> {StoredScore(d) : d \in ScoreDates}]
                      : n \in 0..MaxScores} :
        \A i, j \in DOMAIN cs :
            i < j => cs[i].calculated_at <= cs[j].calculated_at}

StoredFinancialData ==
    {Null} \cup
    {Some(Row(Some(40), Some(250), Some(18), Some(12), Some(15), Some(70),
              Some(20000)) @@ [date |-> d]) : d \in DataDates}

InitMaintenance ==
    /\ now = SweepDay
    /\ settings = Settings(DefaultWeights, 2000)
    /\ is_active = [t \in {Companies[1]} |-> TRUE]
    /\ financial_data \in [Tickers -> StoredFinancialData]
    /\ news_events \in [Tickers -> StoredNews]
    /\ credit_scores \in [Tickers -> StoredScores]
    /\ alerts = <<>>
    /\ jobs = {DataRefreshId, ScoreComputationId}
    /\ tasks = EmptyBag
    /\ call = NoCall

NextMaintenance ==
    \/ DailyMaintenanceJob
    \/ DailyMaintenanceJobRollsBack

SpecMaintenance == InitMaintenance /\ [][NextMaintenance]_vars

\* age of a record dated d, in days
Age(d) == now - d

\* C20: a run of the sweep is all or nothing.  Either it leaves the three
\* tables as they were, or afterwards every FinancialData row and NewsEvent
\* more than 90 days old and every CreditScore more than 30 days old is
\* gone, and every record of age at most 90 (30) days is still there, in
\* its place.
C20_SweepExactAndAtomic ==
    [][\/ /\ financial_data' = financial_data
          /\ news_events' = news_events
          /\ credit_scores' = credit_scores
       \/ \A t \in Tickers :
             /\ financial_data'[t] =
                    IF financial_data[t] # Null
                       /\ Age(Val(financial_data[t]).date) > 90
                    THEN Null ELSE financial_data[t]
             /\ news_events'[t] =
                    SelectSeq(news_events[t],
                              LAMBDA ev : Age(ev.published_at) <= 90)
             /\ credit_scores'[t] =
                    SelectSeq(credit_scores[t],
                              LAMBDA sc : Age(sc.calculated_at) <= 30)]_vars

\* the sweep has run on tables that held an old record of each kind next to
\* records on the cutoffs: the old ones are gone, the others are kept
C20_Witness ==
    /\ call.fn = "daily_maintenance_job"
    /\ financial_data[Companies[1]] # Null
    /\ Age(Val(financial_data[Companies[1]]).date) = 90
    /\ Len(news_events[Companies[1]]) = 1
    /\ Age(news_events[Companies[1]][1].published_at) = 90
    /\ Len(credit_scores[Companies[1]]) = 1
    /\ Age(credit_scores[Companies[1]][1].calculated_at) = 30

-----------------------------------------------------------------------------
(* ScoringService._calculate_volatility.  A standard deviation is modelled
   by its square, the variance, as the fraction num / den in squared units.
   With d[i] the difference of the i-th value from the first one,
   n * sum(d[i]^2) - sum(d[i])^2 is n^2 times the mean squared deviation
   from the mean that np.std takes the root of. *)

MaxStoredScores == 11

VolatilityWindow == 10

\* order_by(CreditScore.calculated_at.desc()).limit(10): the overall scores
\* of the rows inserted last
LastOverallScores(rows) ==
    LET first == Max(1, Len(rows) - VolatilityWindow + 1) IN
    [i \in 1..(Len(rows) - first + 1) |-> rows[first + i - 1].overall_score]

\* n * sum((x - x[1])^2) - (sum(x - x[1]))^2
SquaredDeviations(xs) ==
    Len(xs) * SumSeq([i \in DOMAIN xs |-> (xs[i] - xs[1]) * (xs[i] - xs[1])])
    - SumSeq([i \in DOMAIN xs |-> xs[i] - xs[1]])
      * SumSeq([i \in DOMAIN xs |-> xs[i] - xs[1]])

\* return 0.0
ZeroVolatility == [num |-> 0, den |-> 1]

\* _calculate_volatility; np.std(score_values) has ddof 0, its divisor is n
CalculateVolatility(t) ==
    LET xs == LastOverallScores(credit_scores[t]) IN
    IF ~is_active[t] THEN ZeroVolatility
    ELSE IF Len(xs) < 2 THEN ZeroVolatility
    ELSE [num |-> SquaredDeviations(xs), den |-> Len(xs) * Len(xs)]

CallCalculateVolatility ==
    /\ call.fn = "_calculate_volatility"
    /\ call.ret = Null
    /\ call' = [call EXCEPT !.ret = Some(CalculateVolatility(call.args[1]))]
    /\ UNCHANGED <<now, settings, is_active, financial_data, news_events,
                   credit_scores, alerts, jobs, tasks>>

\* the stored scores of a company: two overall scores a few units apart, in
\* any order
VolatilityScores ==
    UNION {[1..n -> {[StoredScore(0) EXCEPT !.overall_score = 50 * U + d]
                       : d \in {0, 2}}]
             : n \in 0..MaxStoredScores}

InitVolatility ==
    /\ now = 0
    /\ settings = Settings(DefaultWeights, 2000)
    /\ is_active \in [{Companies[1]} -> BOOLEAN]
    /\ financial_data = [t \in Tickers |-> Null]
    /\ news_events = [t \in Tickers |-> <<>>]
    /\ credit_scores \in [Tickers -> VolatilityScores]
    /\ alerts = <<>>
    /\ jobs = {DataRefreshId, ScoreComputationId}
    /\ tasks = EmptyBag
    /\ call = Pending("_calculate_volatility", <<Companies[1]>>)

NextVolatility == CallCalculateVolatility

SpecVolatility == InitVolatility /\ [][NextVolatility]_vars

\* C23: the volatility is the sample standard deviation of the last 10
\* overall scores of the company: its square is the sum of the squared
\* deviations from the mean divided by n - 1, that is
\* SquaredDeviations / (n * (n - 1)); it is 0 with fewer than 2 scores, and
\* it is never negative.
C23_VolatilityIsSampleStd ==
    ( call.fn = "_calculate_volatility" /\ call.ret # Null )
        => LET t == call.args[1]
               xs == LastOverallScores(credit_scores[t])
               n == Len(xs)
               v == Val(call.ret)
           IN  /\ v.den > 0 /\ v.num >= 0
               /\ n < 2 => v.num = 0
               /\ (n >= 2 /\ is_active[t])
                  => v.num * (n * (n - 1)) = SquaredDeviations(xs) * v.den

====
